---- MODULE Spec2Model ----
(***************************************************************************)
(* Edge favorites to PDF: the bookmark tree reader (favorites_parser.py),  *)
(* the page renderer (pdf_converter.py), the document merger               *)
(* (pdf_merger.py) and the orchestrator (main.py), as state machines.      *)
(*                                                                         *)
(* Strings that the code inspects character by character (bookmark and     *)
(* file names) are sequences of one-character strings.  An optional value  *)
(* (Python's None or a value) is a sequence of length 0 or 1.              *)
(***************************************************************************)
EXTENDS Integers, Sequences, FiniteSets, TLC

VARIABLES
    pc,            \* position of the running call
    bookmarks,     \* content of the Bookmarks file: the roots, in file order
    folder_name,   \* the folder name asked for
    found,         \* find_folder's return value (optional node)
    urls,          \* get_urls_from_folder's return value
    filename,      \* _sanitize_filename's argument
    sanitized,     \* _sanitize_filename(filename)
    resanitized,   \* _sanitize_filename(sanitized)
    run,           \* the outermost call: "convert_folder", "converter", "merger" or ""
    scoped,        \* TRUE inside the with-block of a PDFConverter
    exc,           \* the exception propagating, "" when none
    config,        \* FavoritesToPDF.config
    dirs,          \* the directories that exist
    files,         \* the files that exist: path -> content
    made,          \* every directory os.makedirs has created, in order
    driver,        \* PDFConverter.driver (optional session)
    alive,         \* the browser sessions started and not quit
    started,       \* the number of browser sessions started
    output_dir,    \* convert_urls' output_dir
    next_item,     \* convert_urls' loop position: entries attempted so far
    pdf_files,     \* convert_urls' pdf_files
    failed_urls,   \* convert_urls' failed_urls
    attempts,      \* every url_to_pdf call, in order: entry index, session, result
    merge_files,   \* merge_pdfs' pdf_files
    output_path,   \* merge_pdfs' output_path
    add_bookmarks, \* merge_pdfs' add_bookmarks
    merger,        \* the PdfMerger's accumulated document
    next_file,     \* merge_pdfs' loop position: files visited so far
    append_errors, \* the files whose append raised, in order
    merge_error,   \* the exception merge_pdfs' outer handler caught, "" when none
    merged         \* merge_pdfs' return value (optional boolean)

parserVars == <<bookmarks, folder_name, found>>
sanitizeVars == <<filename, sanitized, resanitized>>
fsVars == <<dirs, files, made>>
driverVars == <<driver, alive, started>>
batchVars == <<output_dir, next_item, pdf_files, failed_urls, attempts>>
mergeVars == <<merge_files, output_path, add_bookmarks, merger, next_file, append_errors,
              merge_error, merged>>
vars == <<pc, run, scoped, exc, config, urls, parserVars, sanitizeVars, fsVars,
          driverVars, batchVars, mergeVars>>

----------------------------------------------------------------------------
(* Bounds of the model *)

\* most nodes (roots, folders, urls) of a generated bookmark tree
MaxNodes == 4
\* most runs of equal characters in a generated file name
MaxRuns == 2
\* most nodes of a bookmark tree given to convert_folder
MaxRunNodes == 4
\* most entries of a list given to convert_urls directly
MaxEntries == 3
\* most paths of a list given to merge_pdfs directly
MaxPages == 3

----------------------------------------------------------------------------
(* Optional values *)

None == <<>>
Some(x) == <<x>>
IsSome(o) == Len(o) = 1

\* dict.get(key, default)
Get(node, key, default) == IF key \in DOMAIN node THEN node[key] ELSE default

----------------------------------------------------------------------------
(* Bookmark trees *)

Untitled == <<"U", "n", "t", "i", "t", "l", "e", "d">>

FolderNames == {<<"F">>, <<"G">>}
\* a name no folder has, and one differing from a folder name by case only
AskedNames == FolderNames \cup {<<"f">>}

Folder(nm, kids) == [type |-> "folder", name |-> nm, children |-> kids]

UrlNodes ==
    { [type |-> "url", name |-> <<"a">>, url |-> "http://a.test", date_added |-> "13"],
      [type |-> "url", name |-> <<"b">>, url |-> "http://b.test", date_added |-> "14"],
      [type |-> "url", url |-> "http://c.test", date_added |-> "15"],
      [type |-> "url", name |-> <<"d">>] }

RECURSIVE TreeExact(_, _, _), ForestExact(_, _, _)
\* the trees of exactly n nodes, with url nodes from U and folder names from N
TreeExact(n, U, N) ==
    (IF n = 1 THEN U ELSE {})
        \cup {Folder(nm, f) : nm \in N, f \in ForestExact(n - 1, U, N)}
\* the ordered child lists of exactly n nodes in all
ForestExact(n, U, N) ==
    IF n = 0 THEN {<<>>}
    ELSE UNION {{<<t>> \o f : t \in TreeExact(j, U, N), f \in ForestExact(n - j, U, N)}
                : j \in 1..n}

RECURSIVE RootsExact(_, _, _)
\* the roots mappings of exactly n nodes: every root is a named folder
RootsExact(n, U, N) ==
    IF n = 0 THEN {<<>>}
    ELSE UNION {{<<Folder(nm, f)>> \o r :
                    nm \in N, f \in ForestExact(j - 1, U, N), r \in RootsExact(n - j, U, N)}
                : j \in 1..n}

BookmarkTrees == UNION {RootsExact(n, UrlNodes, FolderNames) : n \in 1..MaxNodes}

----------------------------------------------------------------------------
(* favorites_parser.py *)

RECURSIVE _search_node(_, _), SearchChildren(_, _)
\* the loop over node['children']: the first child whose search succeeds
SearchChildren(kids, name) ==
    IF kids = <<>> THEN None
    ELSE LET result == _search_node(Head(kids), name)
         IN  IF IsSome(result) THEN result ELSE SearchChildren(Tail(kids), name)

_search_node(node, name) ==
    IF Get(node, "type", "") = "folder" /\ Get(node, "name", None) = name
    THEN Some(node)
    ELSE IF "children" \in DOMAIN node THEN SearchChildren(node.children, name)
    ELSE None

RECURSIVE SearchRoots(_, _)
\* the loop over bookmarks['roots'].items(): only each root's children are searched
SearchRoots(roots, name) ==
    IF roots = <<>> THEN None
    ELSE LET root == Head(roots)
             result == IF "children" \in DOMAIN root
                       THEN SearchChildren(root.children, name)
                       ELSE None
         IN  IF IsSome(result) THEN result ELSE SearchRoots(Tail(roots), name)

find_folder(name) == SearchRoots(bookmarks, name)

Entry(node) ==
    [name |-> Get(node, "name", Untitled),
     url |-> Get(node, "url", ""),
     date_added |-> Get(node, "date_added", "")]

RECURSIVE _extract_urls(_, _), ExtractChildren(_, _)

\* a walk that visits the children last to first
ExtractChildrenLastFirst(kids, acc) ==
    IF kids = <<>> THEN acc
    ELSE ExtractChildren(SubSeq(kids, 1, Len(kids) - 1),
                         _extract_urls(kids[Len(kids)], acc))

\* the loop over node['children'], in stored order
ExtractChildren(kids, acc) ==
    IF kids = <<>> THEN acc
    ELSE ExtractChildren(Tail(kids), _extract_urls(Head(kids), acc))

\* acc is the urls list the call appends to; the value is the list afterwards
_extract_urls(node, acc) ==
    IF Get(node, "type", "") = "url" THEN Append(acc, Entry(node))
    ELSE IF "children" \in DOMAIN node THEN ExtractChildren(node.children, acc)
    ELSE acc

\* get_urls_from_folder's result: raises ValueError when the folder is not found
get_urls_from_folder(name) ==
    LET folder == find_folder(name)
    IN  IF ~IsSome(folder) THEN [raised |-> "ValueError", urls |-> <<>>]
        ELSE [raised |-> "", urls |-> _extract_urls(folder[1], <<>>)]

----------------------------------------------------------------------------
(* pdf_converter.py: _sanitize_filename *)

MaxFilenameLen == 100

invalid_chars == <<"<", ">", ":", "\"", "/", "\\", "|", "?", "*">>

\* str.replace(char, '_')
Replace(s, char) == [i \in 1..Len(s) |-> IF s[i] = char THEN "_" ELSE s[i]]

RECURSIVE ReplaceAll(_, _)
\* for char in invalid_chars: filename = filename.replace(char, '_')
ReplaceAll(s, chars) ==
    IF chars = <<>> THEN s ELSE ReplaceAll(Replace(s, Head(chars)), Tail(chars))

\* filename[:n]
Truncate(s, n) == IF Len(s) <= n THEN s ELSE SubSeq(s, 1, n)

RECURSIVE RStrip(_, _)
\* str.rstrip(chars)
RStrip(s, chars) ==
    IF s # <<>> /\ s[Len(s)] \in chars THEN RStrip(SubSeq(s, 1, Len(s) - 1), chars) ELSE s

\* a sanitizer that strips the trailing dots and spaces before it cuts the length
SanitizeStripFirst(name) ==
    LET r == Truncate(RStrip(ReplaceAll(name, invalid_chars), {".", " "}), MaxFilenameLen)
    IN  IF r = <<>> THEN <<"u", "n", "t", "i", "t", "l", "e", "d">> ELSE r

_sanitize_filename(name) ==
    LET r == RStrip(Truncate(ReplaceAll(name, invalid_chars), MaxFilenameLen), {".", " "})
    IN  IF r = <<>> THEN <<"u", "n", "t", "i", "t", "l", "e", "d">> ELSE r

----------------------------------------------------------------------------
(* Inputs of _sanitize_filename: runs of equal characters, so that names    *)
(* shorter than, as long as and longer than the length limit all occur.    *)

NameChars == {"a", ".", " ", "/", "_"}
RunLengths == {1, MaxFilenameLen - 1, MaxFilenameLen}

Run(ch, n) == [j \in 1..n |-> ch]

\* a run of a common character at each length, or one of any invalid character
Runs ==
    {Run(ch, n) : ch \in NameChars, n \in RunLengths}
        \cup {Run(invalid_chars[j], 1) : j \in 1..Len(invalid_chars)}

RECURSIVE NamesOfRuns(_)
NamesOfRuns(n) ==
    IF n = 0 THEN {<<>>}
    ELSE NamesOfRuns(n - 1) \cup {r \o s : r \in Runs, s \in NamesOfRuns(n - 1)}

FileNames == NamesOfRuns(MaxRuns)


----------------------------------------------------------------------------
(* The file system: a path is a directory name ("" when the path has no    *)
(* directory part) and a base name; a file's content is its kind, its      *)
(* pages and its outline.                                                  *)

Path(d, b) == [dir |-> d, base |-> b]
\* os.path.dirname
dirname(path) == path.dir
\* os.path.basename
basename(path) == path.base

Content(kind, pages, outline) == [kind |-> kind, pages |-> pages, outline |-> outline]
\* what open(path, 'wb') leaves when the write after it raises
Unreadable == Content("unreadable", <<>>, <<>>)

\* open(path, 'wb') ... write(content)
WriteFile(fs, path, content) ==
    [p \in DOMAIN fs \cup {path} |-> IF p = path THEN content ELSE fs[p]]

\* shutil.rmtree(d, ignore_errors=True): the files under d
RemoveTree(fs, d) == [p \in {q \in DOMAIN fs : q.dir # d} |-> fs[p]]

\* os.makedirs(d, exist_ok=True) on an existing set of directories
MakeDirs(ds, d) == ds \cup {d}
\* the log of directories created
LogMade(log, ds, d) == IF d \in ds THEN log ELSE Append(log, d)

----------------------------------------------------------------------------
(* pdf_converter.py: the browser session *)

SetupOutcomes == {"ok", "install_fails", "timeout_rejected"}

\* setup_driver: the manager's install() or webdriver.Edge() raises and no session
\* exists, or the session starts and set_page_load_timeout then raises or not
SetupDriver(outcome) ==
    IF outcome = "install_fails"
    THEN [driver |-> driver, alive |-> alive, started |-> started,
          raised |-> "WebDriverException"]
    ELSE [driver |-> Some(started + 1), alive |-> alive \cup {started + 1},
          started |-> started + 1,
          raised |-> IF outcome = "ok" THEN "" ELSE "WebDriverException"]

\* cleanup: if self.driver: self.driver.quit(); self.driver = None
Cleanup ==
    IF IsSome(driver)
    THEN [driver |-> None, alive |-> alive \ {driver[1]}]
    ELSE [driver |-> driver, alive |-> alive]

----------------------------------------------------------------------------
(* pdf_converter.py: convert_urls *)

Digit(d) == <<"0", "1", "2", "3", "4", "5", "6", "7", "8", "9">>[d + 1]

\* f"{n:04d}", for n below 10000
Pad4(n) ==
    <<Digit((n \div 1000) % 10), Digit((n \div 100) % 10), Digit((n \div 10) % 10), Digit(n % 10)>>

\* os.path.join(output_dir, f"{i+1:04d}_{name}.pdf"), n being i+1
PagePath(dir, n, name) == Path(dir, Pad4(n) \o <<"_">> \o name \o <<".", "p", "d", "f">>)

FailedUrlsJson == <<"f", "a", "i", "l", "e", "d", "_", "u", "r", "l", "s", ".", "j", "s", "o", "n">>

RenderOutcomes == {"ok", "timeout", "write_raises"}

\* url_to_pdf's effect on the files: the page written, nothing (the load or the
\* capture raised), or the file opened and the write raising
UrlToPdfFiles(fs, url, path, outcome) ==
    CASE outcome = "ok" -> WriteFile(fs, path, Content("pdf", <<url>>, <<>>))
      [] outcome = "write_raises" -> WriteFile(fs, path, Unreadable)
      [] OTHER -> fs

\* url_to_pdf's return value
UrlToPdf(outcome) == outcome = "ok"

\* a loop that breaks at the first failure
LoopStopsAtFailure(ok) == IF ok THEN next_item + 1 ELSE Len(urls)

\* the loop position after an entry: every entry is attempted
LoopAdvance(ok) == next_item + 1

\* after the call: into __exit__ inside a with-block, else back to the caller
AfterConvertUrls == IF scoped THEN "exit" ELSE "done"

\* convert_urls, lines 113-119, the session being there already
ConvertUrlsStart ==
    /\ pc = "convert_urls"
    /\ IsSome(driver)
    /\ dirs' = MakeDirs(dirs, output_dir)
    /\ made' = LogMade(made, dirs, output_dir)
    /\ pdf_files' = <<>>
    /\ failed_urls' = <<>>
    /\ next_item' = 0
    /\ pc' = "cu_loop"
    /\ UNCHANGED <<run, scoped, exc, config, urls, parserVars, sanitizeVars, files,
                   driverVars, output_dir, attempts, mergeVars>>

\* convert_urls, lines 113-119, setting the session up itself
ConvertUrlsStartLazy ==
    /\ pc = "convert_urls"
    /\ ~IsSome(driver)
    /\ dirs' = MakeDirs(dirs, output_dir)
    /\ made' = LogMade(made, dirs, output_dir)
    /\ \E outcome \in SetupOutcomes :
          LET s == SetupDriver(outcome)
          IN  /\ driver' = s.driver
              /\ alive' = s.alive
              /\ started' = s.started
              /\ exc' = s.raised
              /\ pc' = IF s.raised = "" THEN "cu_loop" ELSE AfterConvertUrls
    /\ pdf_files' = <<>>
    /\ failed_urls' = <<>>
    /\ next_item' = 0
    /\ UNCHANGED <<run, scoped, config, urls, parserVars, sanitizeVars, files,
                   output_dir, attempts, mergeVars>>

\* one turn of the loop, lines 124-139
RenderOne ==
    /\ pc = "cu_loop"
    /\ next_item < Len(urls)
    /\ \E outcome \in RenderOutcomes :
          LET item == urls[next_item + 1]
              name == _sanitize_filename(item.name)
              path == PagePath(output_dir, next_item + 1, name)
              ok == UrlToPdf(outcome)
          IN  /\ files' = UrlToPdfFiles(files, item.url, path, outcome)
              /\ attempts' = Append(attempts,
                                    [index |-> next_item + 1, session |-> driver, ok |-> ok])
              /\ pdf_files' = IF ok THEN Append(pdf_files, path) ELSE pdf_files
              /\ failed_urls' = IF ok THEN failed_urls ELSE Append(failed_urls, item)
              /\ next_item' = LoopAdvance(ok)
    /\ UNCHANGED <<pc, run, scoped, exc, config, urls, parserVars, sanitizeVars, dirs, made,
                   driverVars, output_dir, mergeVars>>

\* an exception url_to_pdf does not catch (KeyboardInterrupt) leaves the loop
RenderInterrupted ==
    /\ pc = "cu_loop"
    /\ next_item < Len(urls)
    /\ exc' = "KeyboardInterrupt"
    /\ pc' = AfterConvertUrls
    /\ UNCHANGED <<run, scoped, config, urls, parserVars, sanitizeVars, fsVars,
                   driverVars, batchVars, mergeVars>>

\* after the loop, lines 142-150: the failed entries are saved, pdf_files returned
ConvertUrlsEnd ==
    /\ pc = "cu_loop"
    /\ next_item >= Len(urls)
    /\ files' = IF failed_urls # <<>>
                THEN WriteFile(files, Path(output_dir, FailedUrlsJson),
                               Content("json", failed_urls, <<>>))
                ELSE files
    /\ pc' = AfterConvertUrls
    /\ UNCHANGED <<run, scoped, exc, config, urls, parserVars, sanitizeVars, dirs, made,
                   driverVars, batchVars, mergeVars>>

\* __enter__: setup_driver; when it raises, the with-block is not entered
Enter ==
    /\ pc = "enter"
    /\ \E outcome \in SetupOutcomes :
          LET s == SetupDriver(outcome)
          IN  /\ driver' = s.driver
              /\ alive' = s.alive
              /\ started' = s.started
              /\ exc' = s.raised
              /\ scoped' = (s.raised = "")
              /\ pc' = IF s.raised = "" THEN "convert_urls"
                       ELSE IF run = "convert_folder" THEN "cf_finally" ELSE "done"
    /\ UNCHANGED <<run, config, urls, parserVars, sanitizeVars, fsVars, batchVars, mergeVars>>

\* __exit__: cleanup; the exception of the block, if any, propagates
Exit ==
    /\ pc = "exit"
    /\ driver' = Cleanup.driver
    /\ alive' = Cleanup.alive
    /\ scoped' = FALSE
    /\ pc' = IF run = "convert_folder"
             THEN (IF exc = "" THEN "cf_merge" ELSE "cf_finally")
             ELSE "done"
    /\ UNCHANGED <<run, exc, config, urls, parserVars, sanitizeVars, fsVars, started,
                   batchVars, mergeVars>>

----------------------------------------------------------------------------
(* pdf_merger.py: merge_pdfs *)

RECURSIVE FirstIndex(_, _, _)
\* the least index from j on where s holds ch, 0 when there is none
FirstIndex(s, ch, j) ==
    IF j > Len(s) THEN 0 ELSE IF s[j] = ch THEN j ELSE FirstIndex(s, ch, j + 1)

RECURSIVE LastIndex(_, _, _)
\* the greatest index up to j where s holds ch, 0 when there is none
LastIndex(s, ch, j) ==
    IF j < 1 THEN 0 ELSE IF s[j] = ch THEN j ELSE LastIndex(s, ch, j - 1)

\* s.split('_', 1)[-1]
AfterFirstUnderscore(s) ==
    LET u == FirstIndex(s, "_", 1)
    IN  IF u = 0 THEN s ELSE SubSeq(s, u + 1, Len(s))

\* os.path.splitext(s)[0]: a dot with only dots before it starts no extension
SplitExtRoot(s) ==
    LET d == LastIndex(s, ".", Len(s))
    IN  IF d > 0 /\ \E j \in 1..(d - 1) : s[j] # "." THEN SubSeq(s, 1, d - 1) ELSE s

\* lines 33-35
BookmarkName(path) == SplitExtRoot(AfterFirstUnderscore(basename(path)))

EmptyDocument == Content("pdf", <<>>, <<>>)

\* merger.append(f, bookmark_name if add_bookmarks else None) on a readable file
AppendDocument(doc, page, name, outline) ==
    Content("pdf", doc.pages \o page.pages,
            IF outline THEN Append(doc.outline, name) ELSE doc.outline)

\* a check of the page list that never refuses
NoFilesNever(pdf) == FALSE

\* if not pdf_files
NoFiles(pdf) == pdf = <<>>

\* a return value that rests on the output's existence alone
ReturnValueFromExistence(error, fs) == output_path \in DOMAIN fs

\* lines 55-66: False from the handler, else whether the output exists
ReturnValue(error, fs) == IF error # "" THEN FALSE ELSE output_path \in DOMAIN fs

WriteOutcomes == {"ok", "open_raises", "write_raises"}

AfterMerge == IF run = "convert_folder" THEN "cf_finally" ELSE "done"

\* lines 19-21
MergeNoFiles ==
    /\ pc = "merge_pdfs"
    /\ NoFiles(merge_files)
    /\ merged' = Some(FALSE)
    /\ pc' = AfterMerge
    /\ UNCHANGED <<run, scoped, exc, config, urls, parserVars, sanitizeVars, fsVars,
                   driverVars, batchVars, merge_files, output_path, add_bookmarks, merger,
                   next_file, append_errors, merge_error>>

\* lines 23-27
MergeStart ==
    /\ pc = "merge_pdfs"
    /\ ~NoFiles(merge_files)
    /\ merger' = EmptyDocument
    /\ next_file' = 0
    /\ append_errors' = <<>>
    /\ merge_error' = ""
    /\ pc' = "mg_loop"
    /\ UNCHANGED <<run, scoped, exc, config, urls, parserVars, sanitizeVars, fsVars,
                   driverVars, batchVars, merge_files, output_path, add_bookmarks, merged>>

\* one turn of the loop, lines 29-46
MergeAppend ==
    /\ pc = "mg_loop"
    /\ next_file < Len(merge_files)
    /\ LET pdf_file == merge_files[next_file + 1]
       IN  IF pdf_file \in DOMAIN files
           THEN IF files[pdf_file].kind = "pdf"
                THEN /\ merger' = AppendDocument(merger, files[pdf_file],
                                                 BookmarkName(pdf_file), add_bookmarks)
                     /\ UNCHANGED append_errors
                ELSE /\ append_errors' = Append(append_errors, pdf_file)
                     /\ UNCHANGED merger
           ELSE UNCHANGED <<merger, append_errors>>
    /\ next_file' = next_file + 1
    /\ UNCHANGED <<pc, run, scoped, exc, config, urls, parserVars, sanitizeVars, fsVars,
                   driverVars, batchVars, merge_files, output_path, add_bookmarks,
                   merge_error, merged>>

\* after the loop, lines 48-68: the directory, the write, the verification
MergeWrite ==
    /\ pc = "mg_loop"
    /\ next_file >= Len(merge_files)
    /\ \E outcome \in WriteOutcomes :
          LET error == IF dirname(output_path) = "" THEN "FileNotFoundError"
                       ELSE IF outcome = "ok" THEN "" ELSE "OSError"
              fs == IF dirname(output_path) = "" \/ outcome = "open_raises" THEN files
                    ELSE IF outcome = "write_raises"
                    THEN WriteFile(files, output_path, Unreadable)
                    ELSE WriteFile(files, output_path, merger)
          IN  /\ dirs' = IF dirname(output_path) = "" THEN dirs
                         ELSE MakeDirs(dirs, dirname(output_path))
              /\ made' = IF dirname(output_path) = "" THEN made
                         ELSE LogMade(made, dirs, dirname(output_path))
              /\ files' = fs
              /\ merge_error' = error
              /\ merged' = Some(ReturnValue(error, fs))
    /\ pc' = AfterMerge
    /\ UNCHANGED <<run, scoped, exc, config, urls, parserVars, sanitizeVars,
                   driverVars, batchVars, merge_files, output_path, add_bookmarks, merger,
                   next_file, append_errors>>

----------------------------------------------------------------------------
(* main.py: the configuration *)

EmptyDict == <<>>

\* default_config (pdf_options, which nothing reads, left out)
default_config ==
    [parallel_downloads |-> 1, timeout_seconds |-> 30, page_load_delay |-> 2,
     headless |-> TRUE, add_bookmarks |-> TRUE]

\* config['headless'] = False
WithoutHeadless(c) ==
    [key \in DOMAIN c \cup {"headless"} |-> IF key = "headless" THEN FALSE ELSE c[key]]

\* main, lines 171-178: the file's content, or {} without a file, then the override
MainConfig(file, no_headless) ==
    LET c == IF IsSome(file) THEN file[1] ELSE EmptyDict
    IN  IF no_headless THEN WithoutHeadless(c) ELSE c

\* __init__: config or self.default_config()
InitConfig(c) == IF DOMAIN c = {} THEN default_config ELSE c

ConfigFiles ==
    { None,
      Some([timeout_seconds |-> 10, page_load_delay |-> 1, headless |-> TRUE]),
      Some([parallel_downloads |-> 1, timeout_seconds |-> 10, page_load_delay |-> 1,
            headless |-> TRUE, add_bookmarks |-> FALSE]) }

----------------------------------------------------------------------------
(* main.py: convert_folder *)

\* temp_dir: the name holds the second the run started in
TempDir == "temp_20240101_120000"

\* lines 69-70
MakeTempDir ==
    /\ pc = "convert_folder"
    /\ dirs' = MakeDirs(dirs, TempDir)
    /\ made' = LogMade(made, dirs, TempDir)
    /\ pc' = "cf_parse"
    /\ UNCHANGED <<run, scoped, exc, config, urls, parserVars, sanitizeVars, files,
                   driverVars, batchVars, mergeVars>>

\* line 75 raising: the folder is not in the tree
FolderNotFound ==
    /\ pc = "cf_parse"
    /\ get_urls_from_folder(folder_name).raised # ""
    /\ exc' = get_urls_from_folder(folder_name).raised
    /\ pc' = "cf_finally"
    /\ UNCHANGED <<run, scoped, config, urls, parserVars, sanitizeVars, fsVars,
                   driverVars, batchVars, mergeVars>>

\* lines 75-80: the folder holds no url, and the call returns
FolderEmpty ==
    /\ pc = "cf_parse"
    /\ get_urls_from_folder(folder_name).raised = ""
    /\ get_urls_from_folder(folder_name).urls = <<>>
    /\ urls' = <<>>
    /\ pc' = "cf_finally"
    /\ UNCHANGED <<run, scoped, exc, config, parserVars, sanitizeVars, fsVars,
                   driverVars, batchVars, mergeVars>>

\* lines 75-78: the folder's urls
FolderParsed ==
    /\ pc = "cf_parse"
    /\ get_urls_from_folder(folder_name).raised = ""
    /\ get_urls_from_folder(folder_name).urls # <<>>
    /\ urls' = get_urls_from_folder(folder_name).urls
    /\ pc' = "cf_construct"
    /\ UNCHANGED <<run, scoped, exc, config, parserVars, sanitizeVars, fsVars,
                   driverVars, batchVars, mergeVars>>

\* lines 84-88: the options read for PDFConverter(...); line 89's output_dir
Construct ==
    /\ pc = "cf_construct"
    /\ {"headless", "timeout_seconds", "page_load_delay"} \subseteq DOMAIN config
    /\ output_dir' = TempDir
    /\ pc' = "enter"
    /\ UNCHANGED <<run, scoped, exc, config, urls, parserVars, sanitizeVars, fsVars,
                   driverVars, next_item, pdf_files, failed_urls, attempts, mergeVars>>

\* lines 84-88 raising: an option is not in the config
ConstructKeyError ==
    /\ pc = "cf_construct"
    /\ ~({"headless", "timeout_seconds", "page_load_delay"} \subseteq DOMAIN config)
    /\ exc' = "KeyError"
    /\ pc' = "cf_finally"
    /\ UNCHANGED <<run, scoped, config, urls, parserVars, sanitizeVars, fsVars,
                   driverVars, batchVars, mergeVars>>

\* lines 92-98: merge_pdfs(pdf_files, output_path, add_bookmarks=...)
CallMerge ==
    /\ pc = "cf_merge"
    /\ pdf_files # <<>>
    /\ "add_bookmarks" \in DOMAIN config
    /\ merge_files' = pdf_files
    /\ add_bookmarks' = config["add_bookmarks"]
    /\ pc' = "merge_pdfs"
    /\ UNCHANGED <<run, scoped, exc, config, urls, parserVars, sanitizeVars, fsVars,
                   driverVars, batchVars, output_path, merger, next_file, append_errors,
                   merge_error, merged>>

\* line 97 raising: add_bookmarks is not in the config
CallMergeKeyError ==
    /\ pc = "cf_merge"
    /\ pdf_files # <<>>
    /\ "add_bookmarks" \notin DOMAIN config
    /\ exc' = "KeyError"
    /\ pc' = "cf_finally"
    /\ UNCHANGED <<run, scoped, config, urls, parserVars, sanitizeVars, fsVars,
                   driverVars, batchVars, mergeVars>>

\* lines 104-105: no page was created
NoPdfs ==
    /\ pc = "cf_merge"
    /\ pdf_files = <<>>
    /\ pc' = "cf_finally"
    /\ UNCHANGED <<run, scoped, exc, config, urls, parserVars, sanitizeVars, fsVars,
                   driverVars, batchVars, mergeVars>>

\* a finally clause that forgets the removal
CleanupTempKeeps(ds, fs) == [dirs |-> ds, files |-> fs]

\* lines 109-111
CleanupTemp(ds, fs) ==
    IF TempDir \in ds
    THEN [dirs |-> ds \ {TempDir}, files |-> RemoveTree(fs, TempDir)]
    ELSE [dirs |-> ds, files |-> fs]

\* lines 107-112: the finally clause; the call then returns or raises exc
Finally ==
    /\ pc = "cf_finally"
    /\ dirs' = CleanupTemp(dirs, files).dirs
    /\ files' = CleanupTemp(dirs, files).files
    /\ pc' = "done"
    /\ UNCHANGED <<run, scoped, exc, config, urls, parserVars, sanitizeVars, made,
                   driverVars, batchVars, mergeVars>>

----------------------------------------------------------------------------
(* Idle values of the variables a specification does not use *)

ParserIdle == bookmarks = <<>> /\ folder_name = <<>> /\ found = None
SanitizeIdle == filename = <<>> /\ sanitized = <<>> /\ resanitized = <<>>
DriverIdle == driver = None /\ alive = {} /\ started = 0
BatchIdle ==
    /\ output_dir = ""
    /\ next_item = 0
    /\ pdf_files = <<>>
    /\ failed_urls = <<>>
    /\ attempts = <<>>
MergeIdle ==
    /\ merge_files = <<>>
    /\ add_bookmarks = TRUE
    /\ merger = EmptyDocument
    /\ next_file = 0
    /\ append_errors = <<>>
    /\ merge_error = ""
    /\ merged = None
RunIdle == run = "" /\ scoped = FALSE /\ exc = "" /\ config = default_config
FsIdle == dirs = {} /\ files = <<>> /\ made = <<>>

Combined == <<"c", "o", "m", "b", "i", "n", "e", "d", ".", "p", "d", "f">>
\* an output path with a directory part (the default) and one without
OutputPaths == {Path("output", Combined), Path("", Combined)}

----------------------------------------------------------------------------
(* The tree reader applied to a bookmark tree and a folder name *)

InitParser ==
    /\ pc = "parser"
    /\ bookmarks \in BookmarkTrees
    /\ folder_name \in AskedNames
    /\ found = None
    /\ urls = <<>>
    /\ output_path = Path("", <<>>)
    /\ SanitizeIdle /\ RunIdle /\ FsIdle /\ DriverIdle /\ BatchIdle /\ MergeIdle

\* find_folder(folder_name)
CallFindFolder ==
    /\ pc = "parser"
    /\ found' = find_folder(folder_name)
    /\ pc' = "searched"
    /\ UNCHANGED <<run, scoped, exc, config, urls, bookmarks, folder_name, sanitizeVars,
                   fsVars, driverVars, batchVars, mergeVars>>

\* get_urls_from_folder(folder_name), returning the entries
CallGetUrls ==
    /\ pc = "searched"
    /\ get_urls_from_folder(folder_name).raised = ""
    /\ urls' = get_urls_from_folder(folder_name).urls
    /\ pc' = "flattened"
    /\ UNCHANGED <<run, scoped, exc, config, parserVars, sanitizeVars,
                   fsVars, driverVars, batchVars, mergeVars>>

\* get_urls_from_folder(folder_name), raising ValueError
CallGetUrlsRaises ==
    /\ pc = "searched"
    /\ get_urls_from_folder(folder_name).raised # ""
    /\ exc' = get_urls_from_folder(folder_name).raised
    /\ pc' = "not_found"
    /\ UNCHANGED <<run, scoped, config, urls, parserVars, sanitizeVars,
                   fsVars, driverVars, batchVars, mergeVars>>

NextParser == CallFindFolder \/ CallGetUrls \/ CallGetUrlsRaises

SpecParser == InitParser /\ [][NextParser]_vars

----------------------------------------------------------------------------
(* The sanitizer applied to a name, and again to its own result *)

InitSanitize ==
    /\ pc = "sanitize"
    /\ filename \in FileNames
    /\ sanitized = <<>>
    /\ resanitized = <<>>
    /\ urls = <<>>
    /\ output_path = Path("", <<>>)
    /\ ParserIdle /\ RunIdle /\ FsIdle /\ DriverIdle /\ BatchIdle /\ MergeIdle

CallSanitize ==
    /\ pc = "sanitize"
    /\ sanitized' = _sanitize_filename(filename)
    /\ pc' = "sanitized"
    /\ UNCHANGED <<run, scoped, exc, config, urls, parserVars, filename, resanitized,
                   fsVars, driverVars, batchVars, mergeVars>>

CallSanitizeAgain ==
    /\ pc = "sanitized"
    /\ resanitized' = _sanitize_filename(sanitized)
    /\ pc' = "resanitized"
    /\ UNCHANGED <<run, scoped, exc, config, urls, parserVars, filename, sanitized,
                   fsVars, driverVars, batchVars, mergeVars>>

NextSanitize == CallSanitize \/ CallSanitizeAgain

SpecSanitize == InitSanitize /\ [][NextSanitize]_vars

----------------------------------------------------------------------------
(* A PDFConverter used on a list of entries: inside a with-block, as        *)
(* convert_folder uses it, or by calling convert_urls on a new converter   *)

BatchEntries ==
    { [name |-> <<"a">>, url |-> "http://a.test", date_added |-> "13"],
      [name |-> <<"b", "/">>, url |-> "http://b.test", date_added |-> "14"],
      [name |-> <<".">>, url |-> "", date_added |-> ""] }

RECURSIVE ListsUpTo(_, _)
\* the lists of at most n members of S
ListsUpTo(S, n) ==
    IF n = 0 THEN {<<>>}
    ELSE ListsUpTo(S, n - 1) \cup {Append(l, x) : l \in ListsUpTo(S, n - 1), x \in S}

InitConvert ==
    /\ run = "converter"
    /\ pc \in {"enter", "convert_urls"}
    /\ urls \in ListsUpTo(BatchEntries, MaxEntries)
    /\ output_dir = "pages"
    /\ scoped = FALSE /\ exc = "" /\ config = default_config
    /\ next_item = 0 /\ pdf_files = <<>> /\ failed_urls = <<>> /\ attempts = <<>>
    /\ output_path = Path("", <<>>)
    /\ ParserIdle /\ SanitizeIdle /\ FsIdle /\ DriverIdle /\ MergeIdle

NextConvert ==
    \/ Enter
    \/ ConvertUrlsStart
    \/ ConvertUrlsStartLazy
    \/ RenderOne
    \/ RenderInterrupted
    \/ ConvertUrlsEnd
    \/ Exit

SpecConvert == InitConvert /\ [][NextConvert]_vars

----------------------------------------------------------------------------
(* merge_pdfs called on a list of paths, some files missing or unreadable  *)

PagePaths ==
    { PagePath("pages", 1, <<"a">>), PagePath("pages", 2, <<"b", "_">>),
      PagePath("pages", 3, <<"c">>) }

\* the file systems where each page path is missing, a PDF or unreadable
PageFileSystems ==
    { [p \in {q \in PagePaths : state[q] # "missing"} |->
          IF state[p] = "pdf" THEN Content("pdf", <<p.base>>, <<>>) ELSE Unreadable]
      : state \in [PagePaths -> {"missing", "pdf", "unreadable"}] }

InitMerge ==
    /\ run = "merger"
    /\ pc = "merge_pdfs"
    /\ merge_files \in ListsUpTo(PagePaths, MaxPages)
    /\ files \in PageFileSystems
    /\ dirs = {"pages"}
    /\ made = <<>>
    /\ output_path \in OutputPaths
    /\ add_bookmarks \in BOOLEAN
    /\ merger = EmptyDocument /\ next_file = 0 /\ append_errors = <<>>
    /\ merge_error = "" /\ merged = None
    /\ scoped = FALSE /\ exc = "" /\ config = default_config
    /\ urls = <<>>
    /\ ParserIdle /\ SanitizeIdle /\ DriverIdle /\ BatchIdle

NextMerge == MergeNoFiles \/ MergeStart \/ MergeAppend \/ MergeWrite

SpecMerge == InitMerge /\ [][NextMerge]_vars

----------------------------------------------------------------------------
(* convert_folder, from main's configuration on *)

RunUrlNodes ==
    { [type |-> "url", name |-> <<"a">>, url |-> "http://a.test", date_added |-> "13"],
      [type |-> "url", url |-> "http://c.test", date_added |-> "15"] }
RunFolderNames == {<<"F">>}
RunAskedNames == {<<"F">>, <<"G">>}
RunTrees == UNION {RootsExact(n, RunUrlNodes, RunFolderNames) : n \in 1..MaxRunNodes}

Init ==
    /\ run = "convert_folder"
    /\ pc = "convert_folder"
    /\ bookmarks \in RunTrees
    /\ folder_name \in RunAskedNames
    /\ found = None
    /\ urls = <<>>
    /\ \E file \in ConfigFiles, no_headless \in BOOLEAN :
          config = InitConfig(MainConfig(file, no_headless))
    /\ output_path \in OutputPaths
    /\ scoped = FALSE /\ exc = ""
    /\ SanitizeIdle /\ FsIdle /\ DriverIdle /\ BatchIdle /\ MergeIdle

Next ==
    \/ MakeTempDir
    \/ FolderNotFound
    \/ FolderEmpty
    \/ FolderParsed
    \/ Construct
    \/ ConstructKeyError
    \/ Enter
    \/ ConvertUrlsStart
    \/ RenderOne
    \/ RenderInterrupted
    \/ ConvertUrlsEnd
    \/ Exit
    \/ CallMerge
    \/ CallMergeKeyError
    \/ NoPdfs
    \/ MergeStart
    \/ MergeAppend
    \/ MergeWrite
    \/ Finally

Spec == Init /\ [][Next]_vars

----------------------------------------------------------------------------
(* Properties *)

Range(seq) == {seq[j] : j \in 1..Len(seq)}

RECURSIVE PreOrder(_), PreOrderAll(_)
\* a node, then its children's subtrees in stored order
PreOrder(node) ==
    <<node>> \o (IF "children" \in DOMAIN node THEN PreOrderAll(node.children) ELSE <<>>)
PreOrderAll(nodes) ==
    IF nodes = <<>> THEN <<>> ELSE PreOrder(Head(nodes)) \o PreOrderAll(Tail(nodes))

Least(S) == CHOOSE x \in S : \A y \in S : x <= y

\* convert_urls has returned its list (no exception is propagating)
ConvertUrlsReturned == pc \in {"exit", "done"} /\ exc = ""

\* the paths convert_urls gives the entries whose attempt succeeded, in attempt order
RECURSIVE RenderedPaths(_)
RenderedPaths(log) ==
    IF log = <<>> THEN <<>>
    ELSE LET a == log[Len(log)]
             rest == RenderedPaths(SubSeq(log, 1, Len(log) - 1))
         IN  IF a.ok
             THEN Append(rest, PagePath(output_dir, a.index, _sanitize_filename(urls[a.index].name)))
             ELSE rest

\* the entries whose attempt failed, in attempt order
RECURSIVE FailedEntries(_)
FailedEntries(log) ==
    IF log = <<>> THEN <<>>
    ELSE LET a == log[Len(log)]
             rest == FailedEntries(SubSeq(log, 1, Len(log) - 1))
         IN  IF a.ok THEN rest ELSE Append(rest, urls[a.index])

\* C1: convert_urls attempts every entry exactly once, in input order, whatever the
\* outcomes before it; when it returns, successes and failures add up to the entries,
\* and the success list holds the paths of the entries that rendered, in input order.
C1_BatchAttemptsAll ==
    /\ \A j \in 1..Len(attempts) : attempts[j].index = j
    /\ ConvertUrlsReturned =>
          /\ Len(attempts) = Len(urls)
          /\ Len(pdf_files) + Len(failed_urls) = Len(urls)
          /\ pdf_files = RenderedPaths(attempts)
          /\ failed_urls = FailedEntries(attempts)

\* a batch that returned after a failure followed by a success
C1_Witness ==
    /\ ConvertUrlsReturned
    /\ \E j, m \in 1..Len(attempts) : j < m /\ ~attempts[j].ok /\ attempts[m].ok

\* C2: a folder name that matches no folder ends the run with the folder-not-found
\* error, no scratch directory ever created, no browser session started, no url rendered.
C2_NotFoundLeavesNoTrace ==
    (pc = "done" /\ run = "convert_folder" /\ ~IsSome(find_folder(folder_name))) =>
        /\ exc = "ValueError"
        /\ TempDir \notin Range(made)
        /\ started = 0
        /\ attempts = <<>>

\* C3: when convert_folder returns or raises, the scratch directory it created and
\* every file in it are gone.
C3_ScratchRemoved ==
    (pc = "done" /\ TempDir \in Range(made)) =>
        /\ TempDir \notin dirs
        /\ \A p \in DOMAIN files : dirname(p) # TempDir

\* a finished run that had rendered a page and saved failed entries in the scratch directory
C3_Witness ==
    /\ pc = "done"
    /\ TempDir \in Range(made)
    /\ pdf_files # <<>>
    /\ failed_urls # <<>>

RECURSIVE PagesOfExisting(_)
\* the pages of the listed files that exist, in list order
PagesOfExisting(paths) ==
    IF paths = <<>> THEN <<>>
    ELSE (IF Head(paths) \in DOMAIN files /\ Head(paths) # output_path
          THEN files[Head(paths)].pages ELSE <<>>) \o PagesOfExisting(Tail(paths))

\* C4: merge_pdfs on a non-empty list skips the paths whose file is missing: the output
\* holds the content of exactly the files that exist, in input order, and the call
\* returns true.  (Stated here for lists whose existing files are all readable PDFs,
\* and for a write that the file system does not refuse.)
C4_MissingSkipped ==
    (/\ pc = "done" /\ run = "merger" /\ merge_files # <<>>
     /\ merge_error # "OSError"
     /\ \A p \in Range(merge_files) : p \in DOMAIN files => files[p].kind = "pdf") =>
        /\ merged = Some(TRUE)
        /\ output_path \in DOMAIN files
        /\ files[output_path].pages = PagesOfExisting(merge_files)

\* C5: merge_pdfs on an empty list returns false, and creates no file and no directory.
C5_EmptyListRefused ==
    /\ []((pc = "done" /\ run = "merger" /\ merge_files = <<>>) =>
            merged = Some(FALSE) /\ output_path \notin DOMAIN files)
    /\ [][(run = "merger" /\ merge_files = <<>>) => UNCHANGED <<files, dirs, made>>]_vars

\* merge_pdfs has returned from a call with an empty list
C5_Witness == pc = "done" /\ run = "merger" /\ merge_files = <<>> /\ merged = Some(FALSE)

\* the listed files that exist and are no readable PDF, in list order
UnreadableListed ==
    SelectSeq([j \in 1..Len(merge_files) |->
                  IF /\ merge_files[j] \in DOMAIN files
                     /\ merge_files[j] # output_path
                     /\ files[merge_files[j]].kind # "pdf"
                  THEN <<merge_files[j]>> ELSE <<>>], IsSome)

C7_SessionReleased ==
    (pc = "done" /\ run = "converter" /\ attempts # <<>>) =>
        /\ alive = {}
        /\ driver = None
        /\ \A j, m \in 1..Len(attempts) : attempts[j].session = attempts[m].session

\* the first folder of the tree, roots included, in root order then pre-order, with the name
FirstFolderNamed(name) ==
    LET all == PreOrderAll(bookmarks)
        hits == {j \in 1..Len(all) :
                    all[j].type = "folder" /\ "name" \in DOMAIN all[j] /\ all[j].name = name}
    IN  IF hits = {} THEN None ELSE Some(all[Least(hits)])

\* C8: find_folder returns the first folder node named exactly so, in root order then
\* pre-order, over every folder node of the tree, the roots themselves included, and
\* not-found only when no folder node has the name.
C8_FirstFolderFound ==
    pc \in {"searched", "flattened", "not_found"} => found = FirstFolderNamed(folder_name)

IsUrl(node) == node.type = "url"

\* C9: flattening a folder yields one entry per url node of its subtree, in pre-order
\* with children in stored order, none for a folder node or a node outside the subtree;
\* a missing name, url or date_added becomes "Untitled", "" or "".
C9_FlattenPreOrder ==
    pc = "flattened" =>
        LET nodes == SelectSeq(PreOrder(found[1]), IsUrl)
        IN  /\ Len(urls) = Len(nodes)
            /\ \A j \in 1..Len(nodes) :
                  /\ urls[j].name = (IF "name" \in DOMAIN nodes[j] THEN nodes[j].name ELSE Untitled)
                  /\ urls[j].url = (IF "url" \in DOMAIN nodes[j] THEN nodes[j].url ELSE "")
                  /\ urls[j].date_added =
                        (IF "date_added" \in DOMAIN nodes[j] THEN nodes[j].date_added ELSE "")

\* a folder flattened to two different entries, one of them with a default in it
C9_Witness ==
    /\ pc = "flattened"
    /\ Len(urls) = 2
    /\ urls[1] # urls[2]
    /\ \E j \in 1..2 : urls[j].name = Untitled \/ urls[j].url = ""

\* C10: _sanitize_filename's result is never empty ("untitled" when nothing remains), is
\* at most 100 long, holds none of < > : " / \ | ? *, ends in no dot or space, and is
\* left unchanged by sanitizing it again.
C10_SanitizeIdempotent ==
    /\ pc \in {"sanitized", "resanitized"} =>
          /\ sanitized # <<>>
          /\ Len(sanitized) <= MaxFilenameLen
          /\ Range(sanitized) \cap Range(invalid_chars) = {}
          /\ sanitized[Len(sanitized)] \notin {".", " "}
          /\ (Range(filename) \subseteq {".", " "}) =>
                sanitized = <<"u", "n", "t", "i", "t", "l", "e", "d">>
    /\ pc = "resanitized" => resanitized = sanitized

\* a name longer than the limit, holding an invalid character, cut and then stripped
C10_Witness ==
    /\ pc = "resanitized"
    /\ Len(filename) > MaxFilenameLen
    /\ "/" \in Range(filename)
    /\ Len(sanitized) < MaxFilenameLen
    /\ sanitized # <<"u", "n", "t", "i", "t", "l", "e", "d">>

\* C11: a supplied configuration overrides only the options it names and the options it
\* does not name keep their defaults, so that convert_folder on a folder holding at least
\* one url reads headless, timeout_seconds, page_load_delay and add_bookmarks and never
\* fails on a missing option.
C11_NoMissingOption ==
    (run = "convert_folder" /\ urls # <<>>) => exc # "KeyError"

====
